---------------------------- MODULE Spec2Model ----------------------------
(***************************************************************************)
(* Model of the hackcode contest platform backend (Convex functions).      *)
(*                                                                         *)
(* Stored state is the Convex tables declared in the schema.  Every        *)
(* exported `mutation` handler is one action: a Convex mutation runs as a  *)
(* serializable transaction, so all its reads and writes take effect       *)
(* together; a handler that throws writes nothing.  The last call and its  *)
(* outcome (the returned message or the thrown error) are kept in lastOp.  *)
(*                                                                         *)
(* The submission engine (dispatcher, result collector, verdict            *)
(* aggregator, contest scorer, statistics) has only its tables in the      *)
(* schema; its steps follow the design document and are marked as such.    *)
(***************************************************************************)
EXTENDS Integers, Sequences, FiniteSets, TLC

\* ------------------------------------------------------------------ bounds
NUsers == 3
MaxContests == 1
MaxTime == 2
\* v.number() is a float64: capacities are counted in units of 1/Denom, so
\* that Denom stands for the number 1 and 1 for the fraction 1/Denom.
Denom == 2
MaxSize == 2
MaxProblems == 2
MaxTestcases == 3
MaxBulk == 2
MaxSubs == 2
MaxExecs == 3
MaxPoints == 1

Users == 1..NUsers
ContestIds == 1..MaxContests
ProblemIds == 1..MaxProblems
TestcaseIds == 1..MaxTestcases
TimeVals == 0..MaxTime
\* v.number() is a float64 and takes NaN (what new Date("").getTime() gives);
\* every ordering comparison with NaN is false.
NaN == -1
TimeArgs == TimeVals \cup {NaN}
lt(a, b) == a # NaN /\ b # NaN /\ a < b
le(a, b) == a # NaN /\ b # NaN /\ a <= b
gt(a, b) == a # NaN /\ b # NaN /\ a > b
ge(a, b) == a # NaN /\ b # NaN /\ a >= b
\* String.prototype.trim on the strings used as names and descriptions
Strings == {"a", " a", "b"}
trim(str) == IF str = " a" THEN "a" ELSE str
\* zero, one proper fraction, and the whole numbers 1..MaxSize
SizeVals == {0, 1} \cup {k * Denom : k \in 1..MaxSize}

OK == "ok"

\* A v.optional(...) argument or field: << >> when absent, <<x>> when x is given.
Opt(S) == {<< >>} \cup {<<x>> : x \in S}
given(o) == o # << >>
orElse(o, d) == IF o = << >> THEN d ELSE o[1]

VARIABLES
    now,            \* Date.now()
    users,          \* table users: _id -> document
    contests,       \* table contests: _id -> document
    contestProblems,\* table contestProblems: _id -> document
    problems,       \* table problems: _id -> document
    testcases,      \* table testcases: _id -> document
    submissions,    \* table submissions: rows in insertion order (_id = index)
    judge0Executions, \* table judge0Executions: rows in insertion order (token = index)
    contestSubmissions, \* table contestSubmissions: rows in insertion order
    problemStats,   \* table problemStats: problem _id -> counters
    grading,        \* per submission: the grading run (snapshot, policy, age, runs)
    checking,       \* executions whose collector wrote the outcome and has not
                    \* yet done its check of the owning submission
    statsWorker,    \* per submission: the statistics update in progress
    nextId,         \* per table, the next generated document id
    lastOp          \* the last call: operation and outcome

vars == <<now, users, contests, contestProblems, problems, testcases, submissions,
          judge0Executions, contestSubmissions, problemStats, grading, checking,
          statsWorker, nextId, lastOp>>

problemVars == <<problems, testcases>>
contestVars == <<contests, contestProblems>>

\* what the contest and problem handlers never touch
engineVars == <<submissions, judge0Executions, contestSubmissions, problemStats,
                grading, checking, statsWorker>>

\* ----------------------------------------------------------------- helpers
includes(arr, x) == \E i \in 1..Len(arr) : arr[i] = x

without(arr, x) == SelectSeq(arr, LAMBDA y : y # x)

Op(op, result) == [op |-> op, result |-> result]

\* The principal requireAuth hands to a handler: the caller's users document.
\* Its Clerk subject (field userId) is a string, never equal to a document id.
userId(u) == 100 + u

\* ------------------------------------------------------------------- Init
Init ==
    /\ now = 0
    /\ users = [u \in Users |->
                  [role |-> IF u = 1 THEN "ADMIN" ELSE "USER",
                   createdProblems |-> << >>,
                   createdContests |-> << >>,
                   participatedContests |-> << >>]]
    /\ problems = << >>
    /\ testcases = << >>
    /\ contests = << >>
    /\ contestProblems = << >>
    /\ submissions = << >>
    /\ judge0Executions = << >>
    /\ contestSubmissions = << >>
    /\ problemStats = << >>
    /\ grading = << >>
    /\ checking = {}
    /\ statsWorker = << >>
    /\ nextId = [contests |-> 1, contestProblems |-> 1, problems |-> 1, testcases |-> 1]
    /\ lastOp = Op("init", OK)

\* Grading deadline of a RUNNING submission, in clock ticks
\* (time-limit x safety-factor + fixed grace).
Deadline == 1

\* Date.now() advances between calls; the clock is followed up to MaxTime, and
\* the age of a grading run up to its deadline.
Tick ==
    /\ \/ now < MaxTime
       \/ \E s \in DOMAIN submissions :
             submissions[s].status = "RUNNING" /\ grading[s].age < Deadline
    /\ now' = IF now < MaxTime THEN now + 1 ELSE now
    /\ grading' = [s \in DOMAIN grading |->
                     IF submissions[s].status = "RUNNING" /\ grading[s].age < Deadline
                     THEN [grading[s] EXCEPT !.age = @ + 1]
                     ELSE grading[s]]
    /\ lastOp' = Op("tick", OK)
    /\ UNCHANGED <<users, contestVars, problemVars, submissions, judge0Executions,
                   contestSubmissions, problemStats, checking, statsWorker, nextId>>

\* ------------------------------------------------------------ contests.ts
createContestResult(startTime, endTime, maxSize) ==
    IF lt(startTime, now) THEN "Contest startTime cannot be in the past"
    ELSE IF le(endTime, startTime) THEN "Contest end time must be after start time"
    ELSE IF maxSize <= 0 THEN "Max size must be positive"
    ELSE OK

createContest(u, name, description, startTime, endTime, isPublic, maxSize, addSelf) ==
    LET r == createContestResult(startTime, endTime, maxSize)
        contestDocId == nextId.contests
        user == users[u]
    IN  /\ nextId.contests <= MaxContests
        /\ lastOp' = Op("createContest", r)
        /\ IF r = OK
           THEN /\ contests' = (contestDocId :> [name |-> trim(name),
                                                 description |-> trim(description),
                                                 creatorId |-> u,
                                                 startTime |-> startTime,
                                                 endTime |-> endTime,
                                                 isPublic |-> isPublic,
                                                 maxSize |-> maxSize,
                                                 problems |-> << >>,
                                                 users |-> IF addSelf THEN <<u>> ELSE << >>,
                                                 updatedAt |-> now])
                                @@ contests
                /\ nextId' = [nextId EXCEPT !.contests = @ + 1]
                /\ users' = [users EXCEPT ![u] =
                      [@ EXCEPT
                         !.createdContests = Append(user.createdContests, contestDocId),
                         !.participatedContests =
                            IF addSelf
                            THEN (IF includes(user.participatedContests, contestDocId)
                                  THEN user.participatedContests
                                  ELSE Append(user.participatedContests, contestDocId))
                            ELSE user.participatedContests]]
           ELSE UNCHANGED <<contests, nextId, users>>
        /\ UNCHANGED <<now, contestProblems, engineVars, problemVars>>

joinContestResult(u, c) ==
    IF c \notin DOMAIN contests THEN "Contest not found"
    ELSE IF ~contests[c].isPublic THEN "Contest is private"
    ELSE IF includes(contests[c].users, u) THEN "Already joined this contest"
    ELSE IF Len(contests[c].users) * Denom >= contests[c].maxSize THEN "Contest is full"
    ELSE IF gt(now, contests[c].endTime) THEN "Contest has ended"
    ELSE OK

\* joinContest that patches the contest and not the user
joinContestOneSided(u, c) ==
    LET r == joinContestResult(u, c)
    IN  /\ lastOp' = Op("joinContest", r)
        /\ IF r = OK
           THEN contests' = [contests EXCEPT ![c].users = Append(@, u)]
           ELSE UNCHANGED contests
        /\ UNCHANGED <<now, users, contestProblems, nextId, engineVars, problemVars>>

joinContest(u, c) ==
    LET r == joinContestResult(u, c)
    IN  /\ lastOp' = Op("joinContest", r)
        /\ IF r = OK
           THEN /\ contests' = [contests EXCEPT ![c].users = Append(@, u)]
                /\ users' = [users EXCEPT ![u].participatedContests = Append(@, c)]
           ELSE UNCHANGED <<contests, users>>
        /\ UNCHANGED <<now, contestProblems, nextId, engineVars, problemVars>>

\* leaveContest with the start check off by one (> for >=)
leaveContestResultLate(u, c) ==
    IF c \notin DOMAIN contests THEN "Contest not found"
    ELSE IF ~includes(contests[c].users, u) THEN "Not participating in this contest"
    ELSE IF gt(now, contests[c].startTime) THEN "Cannot leave contest after it has started"
    ELSE OK

leaveContestResult(u, c) ==
    IF c \notin DOMAIN contests THEN "Contest not found"
    ELSE IF ~includes(contests[c].users, u) THEN "Not participating in this contest"
    ELSE IF ge(now, contests[c].startTime) THEN "Cannot leave contest after it has started"
    ELSE OK

leaveContest(u, c) ==
    LET r == leaveContestResult(u, c)
    IN  /\ lastOp' = Op("leaveContest", r)
        /\ IF r = OK
           THEN /\ contests' = [contests EXCEPT ![c].users = without(@, u)]
                /\ users' = [users EXCEPT ![u].participatedContests = without(@, c)]
           ELSE UNCHANGED <<contests, users>>
        /\ UNCHANGED <<now, contestProblems, nextId, engineVars, problemVars>>

\* updateContest without the test on contests that have started
updateContestResultAnyTime(u, c, name, description, startTime, endTime, isPublic, maxSize) ==
    IF c \notin DOMAIN contests THEN "Contest not found!"
    ELSE
    LET contest == contests[c]
        isCreator == contest.creatorId = u
        isAdmin == users[u].role = "ADMIN"
        hasStarted == ge(now, contest.startTime)
        newStartTime == orElse(startTime, contest.startTime)
        newEndTime == orElse(endTime, contest.endTime)
    IN  IF ~isCreator /\ ~isAdmin
        THEN "Only contest creator or admin can update contest"
        ELSE IF (given(startTime) \/ given(endTime)) /\ ~hasStarted /\ lt(newStartTime, now)
        THEN "Contest start time cannot be in the past"
        ELSE IF (given(startTime) \/ given(endTime)) /\ le(newEndTime, newStartTime)
        THEN "Contest end time must be after start time"
        ELSE IF given(maxSize) /\ maxSize[1] <= 0
        THEN "Max size must be positive"
        ELSE IF given(maxSize) /\ maxSize[1] < Len(contest.users) * Denom
        THEN "Max size cannot be less than current participant count"
        ELSE OK

updateContestResult(u, c, name, description, startTime, endTime, isPublic, maxSize) ==
    IF c \notin DOMAIN contests THEN "Contest not found!"
    ELSE
    LET contest == contests[c]
        isCreator == contest.creatorId = u
        isAdmin == users[u].role = "ADMIN"
        hasStarted == ge(now, contest.startTime)
        newStartTime == orElse(startTime, contest.startTime)
        newEndTime == orElse(endTime, contest.endTime)
    IN  IF ~isCreator /\ ~isAdmin
        THEN "Only contest creator or admin can update contest"
        ELSE IF hasStarted /\ (given(name) \/ given(startTime) \/ given(endTime)
                               \/ given(isPublic) \/ given(maxSize))
        THEN "Can only update description for contests that have started"
        ELSE IF (given(startTime) \/ given(endTime)) /\ ~hasStarted /\ lt(newStartTime, now)
        THEN "Contest start time cannot be in the past"
        ELSE IF (given(startTime) \/ given(endTime)) /\ le(newEndTime, newStartTime)
        THEN "Contest end time must be after start time"
        ELSE IF given(maxSize) /\ maxSize[1] <= 0
        THEN "Max size must be positive"
        ELSE IF given(maxSize) /\ maxSize[1] < Len(contest.users) * Denom
        THEN "Max size cannot be less than current participant count"
        ELSE OK

updateContest(u, c, name, description, startTime, endTime, isPublic, maxSize) ==
    LET r == updateContestResult(u, c, name, description, startTime, endTime,
                                 isPublic, maxSize)
    IN  /\ lastOp' = Op("updateContest", r)
        /\ IF r = OK
           THEN contests' = [contests EXCEPT ![c] =
                   [@ EXCEPT !.updatedAt = now,
                             !.name = IF given(name) THEN trim(name[1]) ELSE @,
                             !.description = IF given(description)
                                             THEN trim(description[1]) ELSE @,
                             !.startTime = orElse(startTime, @),
                             !.endTime = orElse(endTime, @),
                             !.isPublic = orElse(isPublic, @),
                             !.maxSize = orElse(maxSize, @)]]
           ELSE UNCHANGED contests
        /\ UNCHANGED <<now, users, contestProblems, nextId, engineVars, problemVars>>

\* deleteContest's checks without the one for existing submissions
deleteContestResultUnchecked(u, c) ==
    IF c \notin DOMAIN contests THEN "Contest not found"
    ELSE IF contests[c].creatorId # u /\ users[u].role # "ADMIN"
    THEN "Only contest creator or admin can delete contest"
    ELSE OK

deleteContestResult(u, c) ==
    IF c \notin DOMAIN contests THEN "Contest not found"
    ELSE IF contests[c].creatorId # u /\ users[u].role # "ADMIN"
    THEN "Only contest creator or admin can delete contest"
    ELSE IF \E i \in 1..Len(contestSubmissions) : contestSubmissions[i].contestId = c
    THEN "Cannot delete contest with existing submissions"
    ELSE OK

\* deleteContest that deletes the contest's submissions rows with it
deleteContestCascade(u, c) ==
    LET r == IF deleteContestResult(u, c) = "Cannot delete contest with existing submissions"
             THEN OK ELSE deleteContestResult(u, c)
    IN  /\ lastOp' = Op("deleteContest", r)
        /\ IF r = OK
           THEN /\ contestProblems' =
                      [cp \in {x \in DOMAIN contestProblems : contestProblems[x].contestId # c}
                          |-> contestProblems[cp]]
                /\ users' = [p \in Users |->
                      IF includes(contests[c].users, p)
                      THEN [users[p] EXCEPT
                              !.createdContests = without(@, c),
                              !.participatedContests = without(@, c)]
                      ELSE users[p]]
                /\ contests' = [x \in DOMAIN contests \ {c} |-> contests[x]]
                /\ contestSubmissions' =
                      SelectSeq(contestSubmissions, LAMBDA row : row.contestId # c)
           ELSE UNCHANGED <<contestProblems, users, contests, contestSubmissions>>
        /\ UNCHANGED <<now, nextId, problemVars, submissions, judge0Executions,
                       problemStats, grading, checking, statsWorker>>

deleteContest(u, c) ==
    LET r == deleteContestResult(u, c)
    IN  /\ lastOp' = Op("deleteContest", r)
        /\ IF r = OK
           THEN /\ contestProblems' =
                      [cp \in {x \in DOMAIN contestProblems : contestProblems[x].contestId # c}
                          |-> contestProblems[cp]]
                /\ users' = [p \in Users |->
                      IF includes(contests[c].users, p)
                      THEN [users[p] EXCEPT
                              !.createdContests = without(@, c),
                              !.participatedContests = without(@, c)]
                      ELSE users[p]]
                /\ contests' = [x \in DOMAIN contests \ {c} |-> contests[x]]
           ELSE UNCHANGED <<contestProblems, users, contests>>
        /\ UNCHANGED <<now, nextId, engineVars, problemVars>>

\* ------------------------------------------------- problems and testcases
\* canModifyProblem without the creator-or-admin test
canModifyProblemOpen(u, p) ==
    IF p \notin DOMAIN problems THEN "Problem not found" ELSE OK

canModifyProblemResult(u, p) ==
    IF p \notin DOMAIN problems THEN "Problem not found"
    ELSE IF problems[p].creatorId # u /\ users[u].role # "ADMIN" THEN "Permission denied"
    ELSE OK

createProblem(u, title) ==
    LET problemDocId == nextId.problems
    IN  /\ nextId.problems <= MaxProblems
        /\ lastOp' = Op("createProblem", "Problem added successfully!")
        /\ problems' = (problemDocId :> [title |-> title, creatorId |-> u,
                                         testcases |-> << >>, updatedAt |-> now])
                        @@ problems
        /\ users' = [users EXCEPT ![u].createdProblems = Append(@, problemDocId)]
        /\ nextId' = [nextId EXCEPT !.problems = @ + 1]
        /\ UNCHANGED <<now, testcases, contestVars, engineVars>>

createTestCase(u, p, input, output, isPublic) ==
    LET r == canModifyProblemResult(u, p)
        testcaseDocId == nextId.testcases
    IN  /\ nextId.testcases <= MaxTestcases
        /\ lastOp' = Op("createTestCase",
                        IF r = OK THEN "Testcase created successfully!" ELSE r)
        /\ IF r = OK
           THEN /\ testcases' = (testcaseDocId :> [input |-> input, output |-> output,
                                                   isPublic |-> isPublic, problemId |-> p])
                                @@ testcases
                /\ problems' = [problems EXCEPT ![p].testcases = Append(@, testcaseDocId),
                                                ![p].updatedAt = now]
                /\ nextId' = [nextId EXCEPT !.testcases = @ + 1]
           ELSE UNCHANGED <<testcases, problems, nextId>>
        /\ UNCHANGED <<now, users, contestVars, engineVars>>

bulkCreateTestCases(u, p, tcs) ==
    LET r == canModifyProblemResult(u, p)
        first == nextId.testcases
        createdTestCases == [i \in 1..Len(tcs) |-> first + i - 1]
    IN  /\ first + Len(tcs) - 1 <= MaxTestcases
        /\ lastOp' = Op("bulkCreateTestCases",
                        IF r = OK THEN "Succesfully created tescases"
                        ELSE "Something went wrong. Try again later!")
        /\ IF r = OK
           THEN /\ testcases' = [t \in {createdTestCases[i] : i \in 1..Len(tcs)} |->
                                    [input |-> tcs[t - first + 1].input,
                                     output |-> tcs[t - first + 1].output,
                                     isPublic |-> tcs[t - first + 1].isPublic,
                                     problemId |-> p]]
                                @@ testcases
                /\ problems' = [problems EXCEPT ![p].testcases = @ \o createdTestCases,
                                                ![p].updatedAt = now]
                /\ nextId' = [nextId EXCEPT !.testcases = @ + Len(tcs)]
           ELSE UNCHANGED <<testcases, problems, nextId>>
        /\ UNCHANGED <<now, users, contestVars, engineVars>>

\* the checks updateTestCase and deleteTestCase make before they write
deleteTestCaseResult(u, t) ==
    IF t \notin DOMAIN testcases THEN "Test case not found"
    ELSE IF testcases[t].problemId \notin DOMAIN problems THEN "Associated problem not found"
    ELSE IF problems[testcases[t].problemId].creatorId # u /\ users[u].role # "ADMIN"
    THEN "Permission denied"
    ELSE OK

\* deleteTestCase that also drops the executions that ran the testcase
deleteTestCaseCascade(u, t) ==
    LET r == deleteTestCaseResult(u, t)
        gone == {e \in DOMAIN judge0Executions : judge0Executions[e].testcaseId = t}
    IN  /\ lastOp' = Op("deleteTestCase",
                        IF r = OK THEN OK ELSE "Something went wrong. Try again later!")
        /\ IF r = OK
           THEN /\ problems' = [problems EXCEPT
                                  ![testcases[t].problemId].testcases = without(@, t),
                                  ![testcases[t].problemId].updatedAt = now]
                /\ testcases' = [x \in DOMAIN testcases \ {t} |-> testcases[x]]
                /\ submissions' = [s \in DOMAIN submissions |->
                      [submissions[s] EXCEPT
                         !.executions = SelectSeq(@, LAMBDA e : e \notin gone)]]
           ELSE UNCHANGED <<problems, testcases, submissions>>
        /\ UNCHANGED <<now, users, nextId, contestVars, judge0Executions,
                       contestSubmissions, problemStats, grading, checking, statsWorker>>

deleteTestCase(u, t) ==
    LET r == deleteTestCaseResult(u, t)
    IN  /\ lastOp' = Op("deleteTestCase",
                        IF r = OK THEN OK ELSE "Something went wrong. Try again later!")
        /\ IF r = OK
           THEN /\ problems' = [problems EXCEPT
                                  ![testcases[t].problemId].testcases = without(@, t),
                                  ![testcases[t].problemId].updatedAt = now]
                /\ testcases' = [x \in DOMAIN testcases \ {t} |-> testcases[x]]
           ELSE UNCHANGED <<problems, testcases>>
        /\ UNCHANGED <<now, users, nextId, contestVars, engineVars>>

updateTestCase(u, t, input, output, isPublic) ==
    LET r == deleteTestCaseResult(u, t)
    IN  /\ lastOp' = Op("updateTestCase",
                        IF r = OK THEN "Successfully updated testcase."
                        ELSE "Something went wrong. Try again later!")
        /\ IF r = OK
           THEN testcases' = [testcases EXCEPT ![t] =
                   [@ EXCEPT !.input = orElse(input, @),
                             !.output = orElse(output, @),
                             !.isPublic = orElse(isPublic, @)]]
           ELSE UNCHANGED testcases
        /\ UNCHANGED <<now, users, problems, nextId, contestVars, engineVars>>

\* getProblemForEdit is the mutation that edits a problem; of its optional
\* fields the title is followed.
getProblemForEdit(u, p, title) ==
    LET r == canModifyProblemResult(u, p)
    IN  /\ lastOp' = Op("getProblemForEdit",
                        IF r = OK THEN "Problem updated successfully"
                        ELSE "Something went wrong. Try again later!")
        /\ IF r = OK
           THEN problems' = [problems EXCEPT ![p].updatedAt = now,
                                             ![p].title = orElse(title, @)]
           ELSE UNCHANGED problems
        /\ UNCHANGED <<now, users, testcases, nextId, contestVars, engineVars>>

\* deleteProblem that leaves the problem's testcases in the table
deleteProblemOrphans(u, p) ==
    LET r == canModifyProblemResult(u, p)
    IN  /\ lastOp' = Op("deleteProblem",
                        IF r = OK THEN "Problem deleted successfully!"
                        ELSE "Something went wrong. Try again later!")
        /\ IF r = OK
           THEN /\ users' = [users EXCEPT ![problems[p].creatorId].createdProblems =
                                             without(@, p)]
                /\ problems' = [x \in DOMAIN problems \ {p} |-> problems[x]]
           ELSE UNCHANGED <<users, problems>>
        /\ UNCHANGED <<now, testcases, nextId, contestVars, engineVars>>

deleteProblem(u, p) ==
    LET r == canModifyProblemResult(u, p)
    IN  /\ lastOp' = Op("deleteProblem",
                        IF r = OK THEN "Problem deleted successfully!"
                        ELSE "Something went wrong. Try again later!")
        /\ IF r = OK
           THEN /\ testcases' = [x \in DOMAIN testcases
                                      \ {problems[p].testcases[i] :
                                            i \in 1..Len(problems[p].testcases)}
                                   |-> testcases[x]]
                /\ users' = [users EXCEPT ![problems[p].creatorId].createdProblems =
                                             without(@, p)]
                /\ problems' = [x \in DOMAIN problems \ {p} |-> problems[x]]
           ELSE UNCHANGED <<testcases, users, problems>>
        /\ UNCHANGED <<now, nextId, contestVars, engineVars>>

\* ------------------------------------------------------ submission engine
Outcomes == {"PASS", "WRONG_ANSWER", "TIME_LIMIT_EXCEEDED", "MEMORY_LIMIT_EXCEEDED",
             "COMPILATION_ERROR", "RUNTIME_ERROR"}

RECURSIVE SumLen(_)
SumLen(snaps) ==
    IF snaps = << >> THEN 0 ELSE Len(Head(snaps).snapshot) + SumLen(Tail(snaps))

submitResult(p, c) ==
    IF p \notin DOMAIN problems THEN "Problem not found"
    ELSE IF Len(problems[p].testcases) = 0 THEN "Problem has no testcases"
    ELSE IF given(c) /\ ~\E cp \in DOMAIN contestProblems :
                            /\ contestProblems[cp].contestId = c[1]
                            /\ contestProblems[cp].problemId = p
    THEN "Problem is not in the contest"
    ELSE OK

\* submit(userId, problemId, contestId?, ...): creates the PENDING submission and
\* hands it to the dispatcher, which targets the testcases the problem has now.
submit(u, p, c, partial) ==
    LET r == submitResult(p, c)
    IN  /\ Len(submissions) < MaxSubs
        /\ r = OK => SumLen(grading) + Len(problems[p].testcases) <= MaxExecs
        /\ lastOp' = Op("submit", r)
        /\ IF r = OK
           THEN /\ submissions' = Append(submissions,
                      [userId |-> u, problemId |-> p, contestId |-> c,
                       status |-> "PENDING", executions |-> << >>,
                       verdict |-> << >>, score |-> << >>,
                       totalTestCases |-> << >>, passedTestCases |-> << >>])
                /\ grading' = Append(grading,
                      [snapshot |-> problems[p].testcases, partial |-> partial,
                       submittedAt |-> now, age |-> 0, aggregations |-> 0])
                /\ statsWorker' = Append(statsWorker, [pc |-> "idle", seen |-> << >>])
           ELSE UNCHANGED <<submissions, grading, statsWorker>>
        /\ UNCHANGED <<now, users, contestVars, problemVars, judge0Executions,
                       contestSubmissions, problemStats, checking, nextId>>

\* a dispatcher that also takes a submission it has already completed
dispatchableNotRunning(s) == submissions[s].status # "RUNNING"

\* dispatch(submission) requires status = PENDING
dispatchable(s) == submissions[s].status = "PENDING"

\* Every ExecutionClient.submit returned a handle: one Execution row per
\* testcase of the snapshot, PENDING -> RUNNING.
dispatchSuccess(s) ==
    LET snap == grading[s].snapshot
        base == Len(judge0Executions)
    IN  /\ dispatchable(s)
        /\ judge0Executions' = judge0Executions \o
              [i \in 1..Len(snap) |->
                 [submissionId |-> s, testcaseId |-> snap[i], token |-> base + i,
                  status |-> "PENDING", verdict |-> << >>]]
        /\ submissions' = [submissions EXCEPT
              ![s].status = "RUNNING",
              ![s].executions = [i \in 1..Len(snap) |-> base + i]]
        /\ lastOp' = Op("dispatch", OK)
        /\ UNCHANGED <<now, users, contestVars, problemVars, contestSubmissions,
                       problemStats, grading, checking, statsWorker, nextId>>

\* ExecutionClient.submit failed at once: PENDING -> DONE, no Execution rows.
dispatchFailure(s, v) ==
    /\ dispatchable(s)
    /\ submissions' = [submissions EXCEPT ![s].status = "DONE", ![s].verdict = <<v>>]
    /\ lastOp' = Op("dispatch", v)
    /\ UNCHANGED <<now, users, contestVars, problemVars, judge0Executions,
                   contestSubmissions, problemStats, grading, checking, statsWorker,
                   nextId>>

terminal(e) == judge0Executions[e].status = "DONE"

\* the write of a terminal outcome, skipped when the execution is terminal
writeOutcomeAlways(e, outcome) ==
    [judge0Executions EXCEPT ![e].status = "DONE", ![e].verdict = <<outcome>>]

writeOutcome(e, outcome) ==
    IF terminal(e) THEN judge0Executions
    ELSE [judge0Executions EXCEPT ![e].status = "DONE", ![e].verdict = <<outcome>>]

\* onResult(handle, outcome): the first terminal write wins, a later delivery
\* is logged and discarded.
onResult(e, outcome) ==
    /\ judge0Executions' = writeOutcome(e, outcome)
    /\ checking' = IF terminal(e) THEN checking ELSE checking \cup {e}
    /\ lastOp' = Op("onResult", IF terminal(e) THEN "duplicate discarded" ELSE OK)
    /\ UNCHANGED <<now, users, contestVars, problemVars, submissions,
                   contestSubmissions, problemStats, grading, statsWorker, nextId>>

\* a sweep that force-terminates and does not trigger the collector's check
sweepNoTrigger(e) ==
    LET s == judge0Executions[e].submissionId
    IN  /\ ~terminal(e)
        /\ submissions[s].status = "RUNNING"
        /\ grading[s].age >= Deadline
        /\ judge0Executions' = writeOutcome(e, "TIME_LIMIT_EXCEEDED")
        /\ lastOp' = Op("sweep", OK)
        /\ UNCHANGED <<now, users, contestVars, problemVars, submissions, checking,
                       contestSubmissions, problemStats, grading, statsWorker, nextId>>

\* The deadline sweep force-terminates a stale execution of a RUNNING submission
\* and, like any delivery, triggers the check of the owning submission.
sweep(e) ==
    LET s == judge0Executions[e].submissionId
    IN  /\ ~terminal(e)
        /\ submissions[s].status = "RUNNING"
        /\ grading[s].age >= Deadline
        /\ judge0Executions' = writeOutcome(e, "TIME_LIMIT_EXCEEDED")
        /\ checking' = checking \cup {e}
        /\ lastOp' = Op("sweep", OK)
        /\ UNCHANGED <<now, users, contestVars, problemVars, submissions,
                       contestSubmissions, problemStats, grading, statsWorker, nextId>>

\* --- VerdictAggregator
outcomesOf(s) ==
    [i \in 1..Len(submissions[s].executions) |->
        orElse(judge0Executions[submissions[s].executions[i]].verdict, "PENDING")]

RECURSIVE countPass(_)
countPass(outs) ==
    IF outs = << >> THEN 0
    ELSE (IF Head(outs) = "PASS" THEN 1 ELSE 0) + countPass(Tail(outs))

\* the label of the last failing testcase (instead of the first)
RECURSIVE lastFailure(_)
lastFailure(outs) ==
    IF outs = << >> THEN "ACCEPTED"
    ELSE IF outs[Len(outs)] # "PASS" THEN outs[Len(outs)]
    ELSE lastFailure(SubSeq(outs, 1, Len(outs) - 1))

\* iterate in testcase order and stop at the first failing testcase
RECURSIVE firstFailure(_)
firstFailure(outs) ==
    IF outs = << >> THEN "ACCEPTED"
    ELSE IF Head(outs) # "PASS" THEN Head(outs)
    ELSE firstFailure(Tail(outs))

\* round(passed / total * 100, 2), in hundredths of a point
partialScore(passed, total) == (2 * passed * 100 * 100 + total) \div (2 * total)

aggregate(outs, partial) ==
    IF \E i \in 1..Len(outs) : outs[i] = "COMPILATION_ERROR"
    THEN [verdict |-> "COMPILATION_ERROR", score |-> 0, passed |-> 0,
          total |-> Len(outs)]
    ELSE LET passed == countPass(outs)
             total == Len(outs)
         IN  [verdict |-> IF passed = total THEN "ACCEPTED" ELSE firstFailure(outs),
              score |-> IF partial THEN partialScore(passed, total)
                        ELSE (IF passed = total THEN 100 * 100 ELSE 0),
              passed |-> passed,
              total |-> total]

allTerminal(s) ==
    \A i \in 1..Len(submissions[s].executions) : terminal(submissions[s].executions[i])

\* the check without the guard on the submission's status
shouldFinishUnguarded(s) == allTerminal(s)

\* the atomically-checked condition of the DONE transition
shouldFinish(s) == allTerminal(s) /\ submissions[s].status = "RUNNING"

\* After its write a collector checks the owning submission: the one that finds
\* it RUNNING with every execution terminal aggregates and moves it to DONE.
collectorCheck(e) ==
    LET s == judge0Executions[e].submissionId
        a == aggregate(outcomesOf(s), grading[s].partial)
    IN  /\ e \in checking
        /\ checking' = checking \ {e}
        /\ IF shouldFinish(s)
           THEN /\ submissions' = [submissions EXCEPT
                      ![s].status = "DONE",
                      ![s].verdict = <<a.verdict>>,
                      ![s].score = <<a.score>>,
                      ![s].totalTestCases = <<a.total>>,
                      ![s].passedTestCases = <<a.passed>>]
                /\ grading' = [grading EXCEPT ![s].aggregations = @ + 1]
                /\ lastOp' = Op("collect", "DONE")
           ELSE /\ UNCHANGED <<submissions, grading>>
                /\ lastOp' = Op("collect", "not last")
        /\ UNCHANGED <<now, users, contestVars, problemVars, judge0Executions,
                       contestSubmissions, problemStats, statsWorker, nextId>>

\* --- ContestScorer
\* Contest authoring: a problem enters a contest with its points-weight.
addContestProblemResult(u, c, p) ==
    IF c \notin DOMAIN contests THEN "Contest not found"
    ELSE IF contests[c].creatorId # u /\ users[u].role # "ADMIN" THEN "Permission denied"
    ELSE IF p \notin DOMAIN problems THEN "Problem not found"
    ELSE IF \E cp \in DOMAIN contestProblems :
               contestProblems[cp].contestId = c /\ contestProblems[cp].problemId = p
    THEN "Problem already in contest"
    ELSE OK

addContestProblem(u, c, p, points) ==
    LET r == addContestProblemResult(u, c, p)
        cpDocId == nextId.contestProblems
    IN  /\ lastOp' = Op("addContestProblem", r)
        /\ IF r = OK
           THEN /\ contestProblems' =
                      (cpDocId :> [contestId |-> c, problemId |-> p,
                                   order |-> Len(contests[c].problems) + 1,
                                   points |-> points]) @@ contestProblems
                /\ contests' = [contests EXCEPT ![c].problems = Append(@, cpDocId)]
                /\ nextId' = [nextId EXCEPT !.contestProblems = @ + 1]
           ELSE UNCHANGED <<contestProblems, contests, nextId>>
        /\ UNCHANGED <<now, users, problemVars, engineVars>>

\* time added per earlier wrong attempt (ACM convention)
PenaltyPerWrong == 20

accepted(s) == submissions[s].verdict = <<"ACCEPTED">>

\* awarded points, in hundredths of a point
awardedPoints(s, weight) ==
    IF grading[s].partial
    THEN (weight * orElse(submissions[s].score, 0)) \div 100
    ELSE IF accepted(s) THEN weight * 100 ELSE 0

priorWrong(s) ==
    Cardinality({i \in 1..Len(contestSubmissions) :
                   /\ contestSubmissions[i].contestId = submissions[s].contestId[1]
                   /\ contestSubmissions[i].userId = submissions[s].userId
                   /\ contestSubmissions[i].problemId = submissions[s].problemId
                   /\ ~accepted(contestSubmissions[i].submissionId)})

scorable(s) ==
    /\ submissions[s].status = "DONE"
    /\ given(submissions[s].contestId)
    /\ submissions[s].contestId[1] \in DOMAIN contests
    /\ \E cp \in DOMAIN contestProblems :
          /\ contestProblems[cp].contestId = submissions[s].contestId[1]
          /\ contestProblems[cp].problemId = submissions[s].problemId
    /\ \A i \in 1..Len(contestSubmissions) : contestSubmissions[i].submissionId # s

\* score(submission): one new ContestSubmission row for a DONE submission that
\* carries a contest reference.
score(s) ==
    LET c == submissions[s].contestId[1]
        cp == CHOOSE x \in DOMAIN contestProblems :
                 /\ contestProblems[x].contestId = c
                 /\ contestProblems[x].problemId = submissions[s].problemId
    IN  /\ scorable(s)
        /\ contestSubmissions' = Append(contestSubmissions,
              [contestId |-> c,
               userId |-> submissions[s].userId,
               problemId |-> submissions[s].problemId,
               submissionId |-> s,
               points |-> awardedPoints(s, contestProblems[cp].points),
               penalty |-> PenaltyPerWrong * priorWrong(s)
                              + (grading[s].submittedAt - contests[c].startTime),
               submissionTime |-> grading[s].submittedAt])
        /\ lastOp' = Op("score", OK)
        /\ UNCHANGED <<now, users, contestVars, problemVars, submissions,
                       judge0Executions, problemStats, grading, checking, statsWorker,
                       nextId>>

\* --- problem statistics
\* Math.round(x * 100) / 100 of x = accepted / total * 100, in hundredths
roundedRate(acceptedSubmissions, totalSubmissions) ==
    IF totalSubmissions > 0
    THEN (2 * acceptedSubmissions * 100 * 100 + totalSubmissions)
            \div (2 * totalSubmissions)
    ELSE 0

\* getProblemStats that rounds and does not divide by 100 again
getProblemStatsUnscaled(p) ==
    [totalSubmissions |-> problemStats[p].totalSubmissions,
     acceptedSubmissions |-> problemStats[p].acceptedSubmissions,
     acceptanceRate |-> 100 * roundedRate(problemStats[p].acceptedSubmissions,
                                          problemStats[p].totalSubmissions)]

\* what getProblemStats returns for a problem that has a problemStats row
getProblemStats(p) ==
    [totalSubmissions |-> problemStats[p].totalSubmissions,
     acceptedSubmissions |-> problemStats[p].acceptedSubmissions,
     acceptanceRate |-> roundedRate(problemStats[p].acceptedSubmissions,
                                    problemStats[p].totalSubmissions)]

statsOf(p) == IF p \in DOMAIN problemStats THEN <<problemStats[p]>> ELSE << >>

\* A DONE submission is counted once in its problem's statistics, by a
\* re-read-and-patch that is retried when the row changed in between.
statsRead(s) ==
    /\ submissions[s].status = "DONE"
    /\ statsWorker[s].pc = "idle"
    /\ statsWorker' = [statsWorker EXCEPT
          ![s] = [pc |-> "read", seen |-> statsOf(submissions[s].problemId)]]
    /\ lastOp' = Op("statsRead", OK)
    /\ UNCHANGED <<now, users, contestVars, problemVars, submissions, judge0Executions,
                   contestSubmissions, problemStats, grading, checking, nextId>>

statsCommit(s) ==
    LET p == submissions[s].problemId
        seen == statsWorker[s].seen
        total == (IF given(seen) THEN seen[1].totalSubmissions ELSE 0) + 1
        acc == (IF given(seen) THEN seen[1].acceptedSubmissions ELSE 0)
                  + (IF accepted(s) THEN 1 ELSE 0)
    IN  /\ statsWorker[s].pc = "read"
        /\ IF statsOf(p) = seen
           THEN /\ problemStats' =
                      (p :> [totalSubmissions |-> total,
                             acceptedSubmissions |-> acc,
                             acceptanceRate |-> roundedRate(acc, total)])
                      @@ problemStats
                /\ statsWorker' = [statsWorker EXCEPT ![s] = [pc |-> "done", seen |-> << >>]]
                /\ lastOp' = Op("statsCommit", OK)
           ELSE /\ UNCHANGED problemStats
                /\ statsWorker' = [statsWorker EXCEPT ![s] = [pc |-> "idle", seen |-> << >>]]
                /\ lastOp' = Op("statsCommit", "conflict")
        /\ UNCHANGED <<now, users, contestVars, problemVars, submissions, judge0Executions,
                       contestSubmissions, grading, checking, nextId>>

\* --- queries of contests.ts
\* the status label listContests puts on a contest card
listContestsStatus(contest) ==
    LET s1 == IF ge(now, contest.startTime) /\ lt(now, contest.endTime)
              THEN "ongoing" ELSE "upcoming"
    IN  IF ge(now, contest.endTime) THEN "ended" ELSE s1

\* the status getContestDetails returns
getContestDetailsStatus(contest) ==
    LET s1 == IF ge(now, contest.startTime) /\ lt(now, contest.endTime)
              THEN "ongoing" ELSE "upcoming"
    IN  IF ge(now, contest.endTime) THEN "ended" ELSE s1

\* getContestDetails called by user u on contest c: the handler compares the
\* contest's creatorId and users (document ids) with user.userId.
getContestDetails(u, c) ==
    LET contest == contests[c]
        isCreator == contest.creatorId = userId(u)
        isParticipant == includes(contest.users, userId(u))
    IN  [result |-> IF ~contest.isPublic /\ ~isCreator /\ ~isParticipant
                    THEN "Access Denied!" ELSE OK,
         status |-> getContestDetailsStatus(contest),
         participantCount |-> Len(contest.users),
         canJoin |-> ~isParticipant /\ Len(contest.users) * Denom < contest.maxSize,
         isCreator |-> isCreator,
         isParticipant |-> isParticipant]

\* listContests with filter upcoming, ongoing or ended, before sorting and
\* pagination: the contests the database filter selects (its comparisons are
\* followed on numeric times)
listContests(filter) ==
    {c \in DOMAIN contests :
        /\ contests[c].isPublic
        /\ CASE filter = "upcoming" -> gt(contests[c].startTime, now)
             [] filter = "ongoing" -> le(contests[c].startTime, now)
                                         /\ gt(contests[c].endTime, now)
             [] filter = "ended" -> lt(contests[c].endTime, now)}

\* The contest handlers called by the admin (user 1) and the other users; users
\* 2 and 3 differ in nothing but who of them creates the contest.
NextContest ==
    \/ Tick
    \/ \E u \in {1, 2}, s \in TimeArgs, e \in TimeArgs, p \in BOOLEAN,
          m \in SizeVals, a \in BOOLEAN : createContest(u, "a", "a", s, e, p, m, a)
    \/ \E u \in Users, c \in ContestIds : joinContest(u, c)
    \/ \E u \in Users, c \in ContestIds : leaveContest(u, c)
    \/ \E u \in Users, c \in ContestIds, s \in Opt(TimeArgs), e \in Opt(TimeArgs) :
          updateContest(u, c, << >>, << >>, s, e, << >>, << >>)
    \/ \E u \in Users, c \in ContestIds, p \in Opt(BOOLEAN), m \in Opt(SizeVals) :
          updateContest(u, c, << >>, << >>, << >>, << >>, p, m)
    \/ \E u \in Users, c \in ContestIds : deleteContest(u, c)

SpecContest == Init /\ [][NextContest]_vars

\* A database with one problem of n private testcases, written by user 2 with
\* createProblem and n calls of createTestCase.
InitJudge ==
    \E n \in 1..MaxTestcases :
       /\ now = 0
       /\ users = [u \in Users |->
                     [role |-> IF u = 1 THEN "ADMIN" ELSE "USER",
                      createdProblems |-> IF u = 2 THEN <<1>> ELSE << >>,
                      createdContests |-> << >>,
                      participatedContests |-> << >>]]
       /\ problems = (1 :> [title |-> "a", creatorId |-> 2,
                            testcases |-> [i \in 1..n |-> i], updatedAt |-> 0])
       /\ testcases = [t \in 1..n |-> [input |-> "a", output |-> "a",
                                        isPublic |-> FALSE, problemId |-> 1]]
       /\ contests = << >>
       /\ contestProblems = << >>
       /\ submissions = << >>
       /\ judge0Executions = << >>
       /\ contestSubmissions = << >>
       /\ problemStats = << >>
       /\ grading = << >>
       /\ checking = {}
       /\ statsWorker = << >>
       /\ nextId = [contests |-> 1, contestProblems |-> 1, problems |-> 2,
                    testcases |-> n + 1]
       /\ lastOp = Op("createTestCase", "Testcase created successfully!")

\* The engine grading submissions to that problem; the external service reports
\* a pass, a wrong answer or a compile failure, the sweep a timeout.
NextEngine ==
    \/ Tick
    \/ \E u \in {3}, p \in {1}, partial \in BOOLEAN : submit(u, p, << >>, partial)
    \/ \E s \in DOMAIN submissions : dispatchSuccess(s)
    \/ \E s \in DOMAIN submissions, v \in {"COMPILATION_ERROR", "RUNTIME_ERROR"} :
          dispatchFailure(s, v)
    \/ \E e \in DOMAIN judge0Executions,
          o \in {"PASS", "WRONG_ANSWER", "COMPILATION_ERROR"} : onResult(e, o)
    \/ \E e \in DOMAIN judge0Executions : sweep(e)
    \/ \E e \in DOMAIN judge0Executions : collectorCheck(e)

SpecEngine == InitJudge /\ [][NextEngine]_vars

\* The dispatcher, the collector's check, the sweep and the clock are the
\* engine's own processes and keep running; the external service may never
\* deliver a result.
FairEngine ==
    /\ SpecEngine
    /\ WF_vars(Tick)
    /\ \A s \in 1..MaxSubs :
          WF_vars(s \in DOMAIN submissions
                  /\ (dispatchSuccess(s) \/ \E v \in {"COMPILATION_ERROR", "RUNTIME_ERROR"} :
                                               dispatchFailure(s, v)))
    /\ \A e \in 1..MaxExecs :
          /\ WF_vars(e \in DOMAIN judge0Executions /\ sweep(e))
          /\ WF_vars(e \in DOMAIN judge0Executions /\ collectorCheck(e))

\* The aggregator on every outcome the external service can report.
NextAggregate ==
    \/ \E u \in {3}, p \in {1}, partial \in BOOLEAN : submit(u, p, << >>, partial)
    \/ \E s \in DOMAIN submissions : dispatchSuccess(s)
    \/ \E e \in DOMAIN judge0Executions, o \in Outcomes : onResult(e, o)
    \/ \E e \in DOMAIN judge0Executions : collectorCheck(e)

SpecAggregate == InitJudge /\ [][NextAggregate]_vars

\* Testcase authoring while submissions to the problem are graded.
NextGrading ==
    \/ \E u \in {3}, p \in {1} : submit(u, p, << >>, FALSE)
    \/ \E s \in DOMAIN submissions : dispatchSuccess(s)
    \/ \E s \in DOMAIN submissions : dispatchFailure(s, "RUNTIME_ERROR")
    \/ \E e \in DOMAIN judge0Executions : onResult(e, "PASS")
    \/ \E e \in DOMAIN judge0Executions : collectorCheck(e)
    \/ \E u \in {2, 3}, p \in {1} : createTestCase(u, p, "a", "a", FALSE)
    \/ \E u \in {2, 3}, p \in {1}, n \in 1..MaxBulk :
          bulkCreateTestCases(u, p, [i \in 1..n |->
                                       [input |-> "a", output |-> "a", isPublic |-> FALSE]])
    \/ \E u \in {2, 3}, t \in TestcaseIds : deleteTestCase(u, t)
    \/ \E u \in {2, 3}, p \in {1} : deleteProblem(u, p)

SpecGrading == InitJudge /\ [][NextGrading]_vars

\* Contest-scoped submissions: user 2 opens a public contest on the problem,
\* user 3 submits to it, anyone may try to delete it; the scorer and the statistics
\* follow each DONE.
NextScoring ==
    \/ createContest(2, "a", "a", 0, MaxTime, TRUE, MaxSize * Denom, FALSE)
    \/ \E p \in {1}, w \in 1..MaxPoints : addContestProblem(2, 1, p, w)
    \/ \E p \in {1}, c \in Opt(ContestIds), partial \in BOOLEAN :
          submit(3, p, c, partial)
    \/ \E s \in DOMAIN submissions : dispatchSuccess(s)
    \/ \E s \in DOMAIN submissions : dispatchFailure(s, "COMPILATION_ERROR")
    \/ \E e \in DOMAIN judge0Executions, o \in {"PASS", "WRONG_ANSWER"} : onResult(e, o)
    \/ \E e \in DOMAIN judge0Executions : collectorCheck(e)
    \/ \E s \in DOMAIN submissions : score(s)
    \/ \E s \in DOMAIN submissions : statsRead(s)
    \/ \E s \in DOMAIN submissions : statsCommit(s)
    \/ \E u \in Users, c \in ContestIds : deleteContest(u, c)

SpecScoring == InitJudge /\ [][NextScoring]_vars

\* --- queries of the problems module
\* the testcase documents behind a problem's testcases array
testcaseDocs(p) ==
    [i \in 1..Len(problems[p].testcases) |-> testcases[problems[p].testcases[i]]]

\* listProblems returns every problem with testcases: []
listProblems ==
    [p \in DOMAIN problems |-> [problems[p] EXCEPT !.testcases = << >>]]

\* getProblem returns the problem with its public testcase documents
getProblem(p) ==
    [problems[p] EXCEPT !.testcases = SelectSeq(testcaseDocs(p), LAMBDA tc : tc.isPublic)]

\* getProblemTestCases(problemId, publicOnly?) called by user u
getProblemTestCases(u, p, publicOnly) ==
    LET canSeeAll == IF ~orElse(publicOnly, FALSE)
                     THEN problems[p].creatorId = u \/ users[u].role = "ADMIN"
                     ELSE FALSE
    IN  SelectSeq(testcaseDocs(p),
                  LAMBDA tc : canSeeAll \/ publicOnly = <<FALSE>> \/ tc.isPublic)

\* Authoring by user 2 of a contest, problems and testcases; every editing
\* handler is then called by the admin (user 1), by user 2 and by user 3 on
\* every target.
NextAuth ==
    \/ createContest(2, "a", "a", 1, MaxTime, TRUE, MaxSize * Denom, FALSE)
    \/ \E u \in Users, c \in ContestIds :
          updateContest(u, c, << >>, <<"b">>, << >>, << >>, << >>, << >>)
    \/ \E u \in Users, c \in ContestIds : deleteContest(u, c)
    \/ createProblem(2, "a")
    \/ \E u \in Users, p \in ProblemIds : createTestCase(u, p, "a", "a", FALSE)
    \/ \E u \in Users, p \in ProblemIds :
          bulkCreateTestCases(u, p, <<[input |-> "a", output |-> "a", isPublic |-> FALSE],
                                      [input |-> "a", output |-> "a", isPublic |-> FALSE]>>)
    \/ \E u \in Users, t \in TestcaseIds : updateTestCase(u, t, <<"b">>, << >>, << >>)
    \/ \E u \in Users, t \in TestcaseIds : deleteTestCase(u, t)
    \/ \E u \in Users, p \in ProblemIds : getProblemForEdit(u, p, <<"b">>)
    \/ \E u \in Users, p \in ProblemIds : deleteProblem(u, p)

SpecAuth == Init /\ [][NextAuth]_vars

\* Editing of a contest of user 2 before and after its start, by the admin,
\* the creator and user 3, with every subset of the optional arguments.
NextUpdate ==
    \/ Tick
    \/ \E s \in {0, 1}, a \in BOOLEAN :
          createContest(2, "a", "b", s, MaxTime, TRUE, MaxSize * Denom, a)
    \/ \E c \in ContestIds : joinContest(3, c)
    \/ \E u \in Users, c \in ContestIds, n \in Opt({"b"}), d \in Opt({" a", "b"}),
          s \in Opt({1}), e \in Opt({MaxTime}), p \in Opt({FALSE}), m \in Opt({Denom}) :
             updateContest(u, c, n, d, s, e, p, m)

SpecUpdate == Init /\ [][NextUpdate]_vars

\* ------------------------------------------------------------------ claims

\* C1: a submission's status moves only PENDING -> RUNNING, RUNNING -> DONE or
\* PENDING -> DONE, and once it is DONE no step changes its record (status,
\* verdict, score, counts, execution set).
C1_DoneIsFinal ==
    [][\A s \in DOMAIN submissions :
          /\ s \in DOMAIN submissions'
          /\ \/ submissions'[s].status = submissions[s].status
             \/ <<submissions[s].status, submissions'[s].status>> \in
                   {<<"PENDING", "RUNNING">>, <<"RUNNING", "DONE">>, <<"PENDING", "DONE">>}
          /\ submissions[s].status = "DONE" => submissions'[s] = submissions[s]
      ]_vars

\* a late delivery has just been handled while a graded submission is DONE and
\* another one completed at dispatch
C1_Witness ==
    /\ lastOp = Op("onResult", "duplicate discarded")
    /\ \E s \in DOMAIN submissions :
          submissions[s].status = "DONE" /\ grading[s].aggregations = 1
    /\ \E s \in DOMAIN submissions :
          submissions[s].status = "DONE" /\ grading[s].aggregations = 0

\* C2: the aggregation and the RUNNING -> DONE transition of a dispatched
\* submission happen exactly once: never twice, and not zero times once every
\* execution is terminal and every collector that wrote one has done its check.
C2_AggregatedExactlyOnce ==
    \A s \in DOMAIN submissions :
       /\ grading[s].aggregations <= 1
       /\ grading[s].aggregations = 1 => submissions[s].status = "DONE" /\ allTerminal(s)
       /\ ( /\ Len(submissions[s].executions) > 0
            /\ allTerminal(s)
            /\ \A e \in checking : judge0Executions[e].submissionId # s )
          => submissions[s].status = "DONE" /\ grading[s].aggregations = 1

\* the collector that lost the race on the last two executions has just made
\* its check and found the submission DONE
C2_Witness ==
    /\ Len(submissions) = 1
    /\ Len(submissions[1].executions) >= 2
    /\ submissions[1].status = "DONE"
    /\ grading[1].aggregations = 1
    /\ checking = {}
    /\ lastOp = Op("collect", "not last")

\* C3: the first terminal outcome written for an execution stays: no step
\* changes a terminal execution, and a delivery for a terminal handle, whatever
\* its outcome, changes neither the executions nor any submission.
C3_FirstOutcomeWins ==
    [][ /\ \A e \in DOMAIN judge0Executions :
             terminal(e) => /\ e \in DOMAIN judge0Executions'
                            /\ judge0Executions'[e] = judge0Executions[e]
                            /\ \A o \in Outcomes : writeOutcome(e, o) = judge0Executions
        /\ lastOp' = Op("onResult", "duplicate discarded")
             => UNCHANGED <<judge0Executions, submissions, grading, checking>>
      ]_vars

\* a delivery for a terminal handle of a DONE submission has just been discarded
C3_Witness ==
    /\ lastOp = Op("onResult", "duplicate discarded")
    /\ Len(submissions) = 1
    /\ submissions[1].status = "DONE"
    /\ Len(submissions[1].executions) > 0

\* C4: every created submission eventually is DONE, whatever the external
\* service delivers.
C4_EventuallyDone ==
    \A s \in 1..MaxSubs :
       (s \in DOMAIN submissions)
          ~> (s \in DOMAIN submissions /\ submissions[s].status = "DONE")

\* a submission is DONE with an execution the sweep force-terminated and no
\* delivery from the external service at all
C4_Witness ==
    \E s \in DOMAIN submissions :
       /\ submissions[s].status = "DONE"
       /\ Len(submissions[s].executions) > 0
       /\ \A i \in 1..Len(submissions[s].executions) :
             judge0Executions[submissions[s].executions[i]].verdict
                = <<"TIME_LIMIT_EXCEEDED">>

\* C5: for an aggregated submission with no compile failure the verdict is
\* ACCEPTED iff passed = total, and otherwise the label of the first failing
\* execution in testcase order; the stored verdict, score, passed and total are
\* what the aggregator gives on the submission's executions as they are now.
C5_FirstFailureVerdict ==
    \A s \in DOMAIN submissions :
       (submissions[s].status = "DONE" /\ grading[s].aggregations > 0) =>
          LET outs == outcomesOf(s)
              sub == submissions[s]
              fails == {i \in 1..Len(outs) : outs[i] # "PASS"}
          IN  /\ sub.totalTestCases = <<Len(outs)>>
              /\ (\A i \in 1..Len(outs) : outs[i] # "COMPILATION_ERROR") =>
                    /\ sub.passedTestCases = <<Len(outs) - Cardinality(fails)>>
                    /\ (sub.verdict = <<"ACCEPTED">>) <=>
                          (sub.passedTestCases = sub.totalTestCases)
                    /\ fails # {} =>
                          \E i \in fails : /\ \A j \in fails : i <= j
                                           /\ sub.verdict = <<outs[i]>>
              /\ LET a == aggregate(outs, grading[s].partial)
                 IN  /\ sub.verdict = <<a.verdict>>
                     /\ sub.score = <<a.score>>
                     /\ sub.passedTestCases = <<a.passed>>
                     /\ sub.totalTestCases = <<a.total>>

\* [PASS, WRONG_ANSWER, TIME_LIMIT_EXCEEDED] was aggregated to WRONG_ANSWER
C5_Witness ==
    \E s \in DOMAIN submissions :
       /\ submissions[s].status = "DONE"
       /\ outcomesOf(s) = <<"PASS", "WRONG_ANSWER", "TIME_LIMIT_EXCEEDED">>
       /\ submissions[s].verdict = <<"WRONG_ANSWER">>

C7_ContestSubmissionsAppendOnly ==
    [][ /\ Len(contestSubmissions') >= Len(contestSubmissions)
        /\ \A i \in 1..Len(contestSubmissions) :
              contestSubmissions'[i] = contestSubmissions[i]
        /\ \A i, j \in 1..Len(contestSubmissions') :
              i # j => contestSubmissions'[i].submissionId
                          # contestSubmissions'[j].submissionId
        /\ \A i \in 1..Len(contestSubmissions') :
              submissions[contestSubmissions'[i].submissionId].status = "DONE"
      ]_vars

\* two rows of the same user, contest and problem, and a deleteContest that has
\* just been refused because of them
C7_Witness ==
    /\ Len(contestSubmissions) = 2
    /\ contestSubmissions[1].userId = contestSubmissions[2].userId
    /\ contestSubmissions[1].contestId = contestSubmissions[2].contestId
    /\ contestSubmissions[1].problemId = contestSubmissions[2].problemId
    /\ contestSubmissions[1].submissionId # contestSubmissions[2].submissionId
    /\ lastOp = Op("deleteContest", "Cannot delete contest with existing submissions")

\* C8: every problemStats row has 0 <= acceptedSubmissions <= totalSubmissions,
\* and the acceptance rate getProblemStats reports for it lies between 0 and
\* 100 (hundredths: 0 and 100 * 100).
C8_AcceptedAtMostTotal ==
    \A p \in DOMAIN problemStats :
       /\ 0 <= problemStats[p].acceptedSubmissions
       /\ problemStats[p].acceptedSubmissions <= problemStats[p].totalSubmissions
       /\ getProblemStats(p).acceptanceRate >= 0
       /\ getProblemStats(p).acceptanceRate <= 100 * 100
       /\ getProblemStats(p).acceptedSubmissions <= getProblemStats(p).totalSubmissions

\* two submissions counted, one of them accepted
C8_Witness ==
    \E p \in DOMAIN problemStats :
       /\ problemStats[p].totalSubmissions = 2
       /\ problemStats[p].acceptedSubmissions = 1
       /\ getProblemStats(p).acceptanceRate = 50 * 100

\* C9: once a contest has started (now >= startTime) no step removes a user
\* from the users array of a contest that exists before and after the step;
\* leaveContest then fails with 'Cannot leave contest after it has started'
\* and changes nothing; a user leaves the array only by a successful
\* leaveContest made before startTime.
C9_ParticipantsOnlyGrowOnceStarted ==
    [][ /\ \A c \in DOMAIN contests \cap DOMAIN contests' : \A u \in Users :
             (includes(contests[c].users, u) /\ ~includes(contests'[c].users, u))
                => /\ ~ge(now, contests[c].startTime)
                   /\ lastOp' = Op("leaveContest", OK)
        /\ \A c \in DOMAIN contests : \A u \in Users :
             (includes(contests[c].users, u) /\ ge(now, contests[c].startTime))
                => leaveContestResult(u, c) = "Cannot leave contest after it has started"
        /\ lastOp' = Op("leaveContest", "Cannot leave contest after it has started")
             => UNCHANGED <<contests, users>>
      ]_vars

\* a started contest with a participant, on which leaveContest has just failed
C9_Witness ==
    /\ lastOp = Op("leaveContest", "Cannot leave contest after it has started")
    /\ \E c \in DOMAIN contests :
          /\ ge(now, contests[c].startTime)
          /\ Len(contests[c].users) > 0

\* C10: every contest has maxSize > 0 and no more participants than maxSize.
C10_CapacityRespected ==
    \A c \in DOMAIN contests :
       /\ contests[c].maxSize > 0
       /\ Len(contests[c].users) * Denom <= contests[c].maxSize

\* C11: every stored contest has startTime < endTime (after any createContest
\* and updateContest calls supplying any subset of startTime and endTime).
C11_StartBeforeEnd ==
    \A c \in DOMAIN contests : lt(contests[c].startTime, contests[c].endTime)

\* C12: the phase both queries report for a stored contest is the same, is not
\* a field of the record, and is 'upcoming' iff now < startTime, 'ongoing' iff
\* startTime <= now < endTime, 'ended' iff now >= endTime.
C12_PhaseByTimes ==
    \A c \in DOMAIN contests :
       LET contest == contests[c]
           status == getContestDetailsStatus(contest)
       IN  /\ listContestsStatus(contest) = status
           /\ "status" \notin DOMAIN contest
           /\ (status = "upcoming") <=> lt(now, contest.startTime)
           /\ (status = "ongoing") <=> (le(contest.startTime, now)
                                          /\ lt(now, contest.endTime))
           /\ (status = "ended") <=> ge(now, contest.endTime)

\* C13: a call of updateContest, deleteContest, createTestCase, updateTestCase,
\* deleteTestCase, bulkCreateTestCases, getProblemForEdit or deleteProblem by a
\* caller who is neither the creator of the contest / of the (owning) problem
\* nor an ADMIN leaves every table unchanged.
C13_OnlyCreatorOrAdminWrites ==
    [][ LET admin(u) == users[u].role = "ADMIN"
            mayContest(u, c) ==
               c \in DOMAIN contests /\ (contests[c].creatorId = u \/ admin(u))
            mayProblem(u, p) ==
               p \in DOMAIN problems /\ (problems[p].creatorId = u \/ admin(u))
            mayTestcase(u, t) ==
               t \in DOMAIN testcases /\ mayProblem(u, testcases[t].problemId)
            same == UNCHANGED <<users, contests, contestProblems, problems, testcases,
                                nextId, engineVars>>
        IN  \A u \in Users :
               /\ \A c \in ContestIds : ~mayContest(u, c) =>
                     /\ updateContest(u, c, << >>, <<"b">>, << >>, << >>, << >>, << >>)
                           => same
                     /\ deleteContest(u, c) => same
               /\ \A p \in ProblemIds : ~mayProblem(u, p) =>
                     /\ createTestCase(u, p, "a", "a", FALSE) => same
                     /\ bulkCreateTestCases(u, p,
                           <<[input |-> "a", output |-> "a", isPublic |-> FALSE],
                             [input |-> "a", output |-> "a", isPublic |-> FALSE]>>)
                           => same
                     /\ getProblemForEdit(u, p, <<"b">>) => same
                     /\ deleteProblem(u, p) => same
               /\ \A t \in TestcaseIds : ~mayTestcase(u, t) =>
                     /\ updateTestCase(u, t, <<"b">>, << >>, << >>) => same
                     /\ deleteTestCase(u, t) => same
      ]_vars

\* deleteProblem has just been refused although both problems exist and have
\* testcases: the caller was user 3, who created neither and is no admin
C13_Witness ==
    /\ lastOp = Op("deleteProblem", "Something went wrong. Try again later!")
    /\ DOMAIN problems = ProblemIds
    /\ \A p \in ProblemIds : Len(problems[p].testcases) > 0
    /\ DOMAIN contests # {}

\* C14: listProblems, getProblem and getProblemTestCases (publicOnly true,
\* false or absent) return no private testcase to a caller who is neither the
\* creator of the problem nor an ADMIN.
C14_PrivateTestcasesHidden ==
    \A u \in Users, p \in DOMAIN problems :
       (problems[p].creatorId # u /\ users[u].role # "ADMIN") =>
          /\ listProblems[p].testcases = << >>
          /\ \A i \in 1..Len(getProblem(p).testcases) : getProblem(p).testcases[i].isPublic
          /\ \A publicOnly \in Opt(BOOLEAN) :
                \A i \in 1..Len(getProblemTestCases(u, p, publicOnly)) :
                   getProblemTestCases(u, p, publicOnly)[i].isPublic

\* C15: every existing testcase is owned by exactly one problem: its problemId
\* names an existing problem whose testcases array holds it exactly once, no
\* other problem's array holds it, and no array names a deleted testcase.
C15_TestcaseOwnedByOneProblem ==
    /\ \A t \in DOMAIN testcases :
          /\ testcases[t].problemId \in DOMAIN problems
          /\ \A p \in DOMAIN problems :
                Cardinality({i \in 1..Len(problems[p].testcases) :
                               problems[p].testcases[i] = t})
                   = IF p = testcases[t].problemId THEN 1 ELSE 0
    /\ \A p \in DOMAIN problems : \A i \in 1..Len(problems[p].testcases) :
          problems[p].testcases[i] \in DOMAIN testcases

\* one problem has just been deleted with its testcases, after an update of a
\* testcase of the other problem, which keeps its testcase
C15_Witness ==
    /\ lastOp = Op("deleteProblem", "Problem deleted successfully!")
    /\ \E p \in DOMAIN problems :
          /\ Len(problems[p].testcases) > 0
          /\ testcases[problems[p].testcases[1]].input = "b"
    /\ nextId.testcases > MaxTestcases
    /\ Cardinality(DOMAIN testcases) < MaxTestcases

\* C16: a user is in the users array of a contest iff the contest is in the
\* user's participatedContests; a deleted contest is in no such array.
C16_ParticipationMirrored ==
    \A u \in Users, c \in ContestIds :
       (c \in DOMAIN contests /\ includes(contests[c].users, u))
          <=> includes(users[u].participatedContests, c)

\* a user has just left a contest in which another user, not its creator,
\* stays
C16_Witness ==
    /\ lastOp = Op("leaveContest", OK)
    /\ \E c \in DOMAIN contests :
          /\ Len(contests[c].users) = 1
          /\ contests[c].users[1] # contests[c].creatorId

\* C17: a deleted contest is referenced by no user's createdContests or
\* participatedContests array and by no contestProblems row.
C17_NoReferenceToDeletedContest ==
    \A c \in ContestIds : c \notin DOMAIN contests =>
       /\ \A u \in Users : /\ ~includes(users[u].createdContests, c)
                           /\ ~includes(users[u].participatedContests, c)
       /\ \A cp \in DOMAIN contestProblems : contestProblems[cp].contestId # c

\* C18: on a contest that has started (now >= startTime) a step of
\* updateContest changes at most description and updatedAt; a call by the
\* creator or an admin that supplies name, startTime, endTime, isPublic or
\* maxSize fails with 'Can only update description for contests that have
\* started', and a call that fails so changes nothing.
C18_StartedContestOnlyDescription ==
    [][ /\ \A c \in DOMAIN contests :
             (lastOp'.op = "updateContest" /\ ge(now, contests[c].startTime)) =>
                /\ c \in DOMAIN contests'
                /\ contests'[c] = [contests[c] EXCEPT
                                     !.description = contests'[c].description,
                                     !.updatedAt = contests'[c].updatedAt]
                /\ UNCHANGED <<users, contestProblems>>
        /\ \A c \in DOMAIN contests : ge(now, contests[c].startTime) =>
             \A u \in Users, n \in Opt({"b"}), d \in Opt({"b"}), s \in Opt({1}),
                e \in Opt({MaxTime}), p \in Opt({FALSE}), m \in Opt({Denom}) :
                ( /\ contests[c].creatorId = u \/ users[u].role = "ADMIN"
                  /\ given(n) \/ given(s) \/ given(e) \/ given(p) \/ given(m) )
                => updateContestResult(u, c, n, d, s, e, p, m)
                      = "Can only update description for contests that have started"
        /\ lastOp' = Op("updateContest",
                        "Can only update description for contests that have started")
             => UNCHANGED <<contests, users, contestProblems>>
      ]_vars

\* an update of a started contest has just been refused, after an update of
\* its description that was made after the start
C18_Witness ==
    /\ lastOp = Op("updateContest",
                   "Can only update description for contests that have started")
    /\ \E c \in DOMAIN contests :
          /\ contests[c].updatedAt > contests[c].startTime
          /\ contests[c].description = "a"
          /\ contests[c].name = "a"

\* C19: a contest with a contestSubmissions row is not deleted by any step;
\* deleteContest on it succeeds for no caller, fails for its creator and for an
\* admin with 'Cannot delete contest with existing submissions', and a call
\* that fails so leaves contests, contestProblems and users unchanged.
C19_ContestWithSubmissionsKept ==
    [][ /\ \A c \in DOMAIN contests :
             (\E i \in 1..Len(contestSubmissions) : contestSubmissions[i].contestId = c)
             => /\ c \in DOMAIN contests'
                /\ \A u \in Users :
                      /\ deleteContestResult(u, c) # OK
                      /\ (contests[c].creatorId = u \/ users[u].role = "ADMIN")
                            => deleteContestResult(u, c)
                                  = "Cannot delete contest with existing submissions"
        /\ lastOp' = Op("deleteContest", "Cannot delete contest with existing submissions")
             => UNCHANGED <<contests, contestProblems, users>>
      ]_vars

\* deleteContest has just been refused on a contest that has one problem and
\* one scored submission
C19_Witness ==
    /\ lastOp = Op("deleteContest", "Cannot delete contest with existing submissions")
    /\ Len(contestSubmissions) = 1
    /\ \E c \in DOMAIN contests :
          /\ contestSubmissions[1].contestId = c
          /\ Len(contests[c].problems) = 1
          /\ \E cp \in DOMAIN contestProblems : contestProblems[cp].contestId = c

\* C20: while getContestDetails reports a contest as 'ended' (now >= endTime)
\* joinContest succeeds for no user.
C20_NoJoinOnceEnded ==
    \A c \in DOMAIN contests, u \in Users :
       getContestDetailsStatus(contests[c]) = "ended" => joinContestResult(u, c) # OK

\* C21: on a non-public contest getContestDetails succeeds for the creator
\* with isCreator true and for every participant with isParticipant true and
\* canJoin false, and fails with 'Access Denied!' for every other caller.
C21_PrivateContestAccess ==
    \A c \in DOMAIN contests, u \in Users :
       ~contests[c].isPublic =>
          LET d == getContestDetails(u, c)
              creator == contests[c].creatorId = u
              participant == includes(contests[c].users, u)
          IN  /\ creator => (d.result = OK /\ d.isCreator)
              /\ participant => (d.result = OK /\ d.isParticipant /\ ~d.canJoin)
              /\ (~creator /\ ~participant) => d.result = "Access Denied!"

\* C22: a public contest with numeric times is returned by listContests with
\* filter F in {upcoming, ongoing, ended} iff the status label listContests
\* computes for it equals F, at every time.
C22_FilterMatchesStatus ==
    \A c \in DOMAIN contests :
       (contests[c].isPublic /\ contests[c].startTime # NaN /\ contests[c].endTime # NaN)
          => \A F \in {"upcoming", "ongoing", "ended"} :
                (c \in listContests(F)) <=> (listContestsStatus(contests[c]) = F)

=============================================================================
